---- MODULE Spec2Model ----
(***************************************************************************)
(* Model of pkg/kor/kor.go: the unused-ConfigMap reporter.                  *)
(*                                                                          *)
(* Strings that the program orders (ConfigMap names) are sequences of byte  *)
(* values, ordered as sort.Strings orders them.  A Go pointer is a sequence *)
(* of length 0 (nil) or 1.  The Kubernetes API is the environment: every    *)
(* listing call returns an error or some list drawn from a small universe.  *)
(***************************************************************************)
EXTENDS Integers, Sequences, FiniteSets, TLC

VARIABLES
    pc,                 \* position of GetUnusedConfigmaps / processNamespace
    namespaces,         \* GetUnusedConfigmaps: namespaces []string
    idx,                \* position of the range loop over namespaces
    pods,               \* retrieveVolumesAndEnv: pods.Items of the last listing
    volumesCM,          \* the five reference partitions
    volumesProjectedCM,
    envCM,
    envFromCM,
    envFromContainerCM,
    configMapNames,     \* processNamespace: configMapNames
    err,                \* the error of the last call ("" is nil)
    stdout,             \* what fmt.Println wrote, one entry per call
    stderr,             \* what fmt.Fprintf(os.Stderr, ...) wrote
    exitCode,           \* -1 while running, 1 after os.Exit(1), 0 after return
    calls,              \* history: the library and API calls issued, with outcome
    podRefs,            \* history: names referenced by the last Pod listing
    prevRefs            \* history: podRefs of the namespace processed before

vars == <<pc, namespaces, idx, pods, volumesCM, volumesProjectedCM, envCM,
          envFromCM, envFromContainerCM, configMapNames, err, stdout, stderr,
          exitCode, calls, podRefs, prevRefs>>

----------------------------------------------------------------------------
(* Bounds and universes *)

MaxNs == 2
MaxPods == 2

\* "ab" and "b" as byte sequences
NameAB == <<97, 98>>
NameB == <<98>>
Names == {NameAB, NameB}

NsUniverse == <<"default", "empty-ns", "kube-system", "dev">>
Namespaces == {NsUniverse[i] : i \in 1..MaxNs}

SeqsUpTo(S, n) == UNION {[1..k -> S] : k \in 0..n}

IsInjective(s) == \A i, j \in 1..Len(s) : s[i] = s[j] => i = j

Range(s) == {s[i] : i \in 1..Len(s)}

\* A listing of named objects of one kind: names are unique within the scope.
NsLists == {s \in SeqsUpTo(Namespaces, MaxNs) : IsInjective(s)}
CmLists == {s \in SeqsUpTo(Names, Cardinality(Names)) : IsInjective(s)}

(* Pod specifications *)
Ref(n) == <<[Name |-> n]>>
CMVol(n) == [ConfigMap |-> Ref(n), Projected |-> <<>>]
ProjVol(srcs) == [ConfigMap |-> <<>>, Projected |-> <<[Sources |-> srcs]>>]
OtherVol == [ConfigMap |-> <<>>, Projected |-> <<>>]
CMSrc(n) == [ConfigMap |-> Ref(n)]
OtherSrc == [ConfigMap |-> <<>>]
EnvRef(n) == [ValueFrom |-> <<[ConfigMapKeyRef |-> Ref(n)]>>]
EnvOtherRef == [ValueFrom |-> <<[ConfigMapKeyRef |-> <<>>]>>]
EnvValue == [ValueFrom |-> <<>>]
EnvFromCM(n) == [ConfigMapRef |-> Ref(n)]
EnvFromOther == [ConfigMapRef |-> <<>>]
Ctr(env, envFrom) == [Env |-> env, EnvFrom |-> envFrom]
Pod(vols, ctrs) == [Spec |-> [Volumes |-> vols, Containers |-> ctrs]]

PodU ==
    {Pod(<<CMVol(n)>>, <<Ctr(<<>>, <<>>)>>) : n \in Names}
    \cup {Pod(<<ProjVol(<<OtherSrc, CMSrc(n)>>)>>, <<Ctr(<<>>, <<>>)>>) : n \in Names}
    \cup {Pod(<<>>, <<Ctr(<<EnvValue, EnvRef(n)>>, <<>>)>>) : n \in Names}
    \cup {Pod(<<>>, <<Ctr(<<EnvOtherRef>>, <<EnvFromOther, EnvFromCM(n)>>)>>) : n \in Names}
    \cup {Pod(<<OtherVol, ProjVol(<<>>)>>, <<Ctr(<<EnvValue>>, <<EnvFromOther>>)>>)}
    \cup {Pod(<<CMVol(n), ProjVol(<<CMSrc(m), CMSrc(n)>>)>>,
              <<Ctr(<<EnvRef(m)>>, <<>>), Ctr(<<>>, <<EnvFromCM(n), EnvFromCM(n)>>)>>)
            : n \in Names, m \in Names}

PodLists == SeqsUpTo(PodU, MaxPods)

----------------------------------------------------------------------------
(* Strings *)

\* Go's string < : byte-wise lexicographic, a proper prefix is smaller.
RECURSIVE StrLess(_, _)
StrLess(a, b) ==
    IF Len(b) = 0 THEN FALSE
    ELSE IF Len(a) = 0 THEN TRUE
    ELSE IF Head(a) < Head(b) THEN TRUE
    ELSE IF Head(a) > Head(b) THEN FALSE
    ELSE StrLess(Tail(a), Tail(b))

RECURSIVE insertSorted(_, _)
insertSorted(x, s) ==
    IF Len(s) = 0 THEN <<x>>
    ELSE IF StrLess(x, Head(s)) THEN <<x>> \o s
    ELSE <<Head(s)>> \o insertSorted(x, Tail(s))

\* sort.Strings
RECURSIVE sortStrings(_)
sortStrings(s) ==
    IF Len(s) = 0 THEN <<>> ELSE insertSorted(Head(s), sortStrings(Tail(s)))

\* the keys of a Go map, in the order some iteration yields them
RECURSIVE mapKeys(_)
mapKeys(S) ==
    IF S = {} THEN <<>>
    ELSE LET k == CHOOSE k \in S : TRUE IN <<k>> \o mapKeys(S \ {k})

\* fmt.Sprintf("%d", n) for n >= 0: the decimal digits as bytes
RECURSIVE Itoa(_)
Itoa(n) == IF n < 10 THEN <<48 + n>> ELSE Itoa(n \div 10) \o <<48 + (n % 10)>>

----------------------------------------------------------------------------
(* The functions of kor.go *)

removeDuplicatesAndSort(slice) ==
    LET uniqueSet == Range(slice)
        uniqueSlice == mapKeys(uniqueSet)
    IN sortStrings(uniqueSlice)

RECURSIVE contains(_, _)
contains(usedConfigMaps, name) ==
    IF Len(usedConfigMaps) = 0 THEN FALSE
    ELSE IF name = Head(usedConfigMaps) THEN TRUE
    ELSE contains(Tail(usedConfigMaps), name)

RECURSIVE calculateDifference(_, _)
calculateDifference(usedConfigMaps, names) ==
    IF Len(names) = 0 THEN <<>>
    ELSE LET found == contains(usedConfigMaps, Head(names))
             rest == calculateDifference(usedConfigMaps, Tail(names))
         IN IF ~found THEN <<Head(names)>> \o rest ELSE rest

\* numbers the rows from 0
formatOutputZeroBased(namespace, names) ==
    IF Len(names) = 0
    THEN [kind |-> "none", namespace |-> namespace, header |-> <<>>, rows |-> <<>>]
    ELSE [kind |-> "table", namespace |-> namespace,
          header |-> <<"#", "Config Map Name">>,
          rows |-> [i \in 1..Len(names) |-> <<Itoa(i - 1), names[i]>>]]

formatOutput(namespace, names) ==
    IF Len(names) = 0
    THEN [kind |-> "none", namespace |-> namespace, header |-> <<>>, rows |-> <<>>]
    ELSE [kind |-> "table", namespace |-> namespace,
          header |-> <<"#", "Config Map Name">>,
          rows |-> [i \in 1..Len(names) |-> <<Itoa(i), names[i]>>]]

BlankLine == [kind |-> "blank", namespace |-> "", header |-> <<>>, rows |-> <<>>]

(* retrieveVolumesAndEnv: the loops over one listing *)
\* looks at the first source of a projected volume only
sourcesCMFirstOnly(sources) ==
    IF Len(sources) = 0 THEN <<>>
    ELSE IF Head(sources).ConfigMap # <<>>
         THEN <<Head(sources).ConfigMap[1].Name>> ELSE <<>>

RECURSIVE sourcesCM(_)
sourcesCM(sources) ==
    IF Len(sources) = 0 THEN <<>>
    ELSE (IF Head(sources).ConfigMap # <<>>
          THEN <<Head(sources).ConfigMap[1].Name>> ELSE <<>>)
         \o sourcesCM(Tail(sources))

RECURSIVE volsCM(_)
volsCM(volumes) ==
    IF Len(volumes) = 0 THEN <<>>
    ELSE (IF Head(volumes).ConfigMap # <<>>
          THEN <<Head(volumes).ConfigMap[1].Name>> ELSE <<>>)
         \o volsCM(Tail(volumes))

RECURSIVE volsProjectedCM(_)
volsProjectedCM(volumes) ==
    IF Len(volumes) = 0 THEN <<>>
    ELSE (IF Head(volumes).Projected # <<>>
          THEN sourcesCM(Head(volumes).Projected[1].Sources) ELSE <<>>)
         \o volsProjectedCM(Tail(volumes))

RECURSIVE envsCM(_)
envsCM(env) ==
    IF Len(env) = 0 THEN <<>>
    ELSE (IF Head(env).ValueFrom # <<>> /\ Head(env).ValueFrom[1].ConfigMapKeyRef # <<>>
          THEN <<Head(env).ValueFrom[1].ConfigMapKeyRef[1].Name>> ELSE <<>>)
         \o envsCM(Tail(env))

RECURSIVE envFromsCM(_)
envFromsCM(envFrom) ==
    IF Len(envFrom) = 0 THEN <<>>
    ELSE (IF Head(envFrom).ConfigMapRef # <<>>
          THEN <<Head(envFrom).ConfigMapRef[1].Name>> ELSE <<>>)
         \o envFromsCM(Tail(envFrom))

RECURSIVE ctrsEnvCM(_)
ctrsEnvCM(containers) ==
    IF Len(containers) = 0 THEN <<>>
    ELSE envsCM(Head(containers).Env) \o ctrsEnvCM(Tail(containers))

RECURSIVE ctrsEnvFromCM(_)
ctrsEnvFromCM(containers) ==
    IF Len(containers) = 0 THEN <<>>
    ELSE envFromsCM(Head(containers).EnvFrom) \o ctrsEnvFromCM(Tail(containers))

RECURSIVE collect(_, _)
collect(acc, items) ==
    IF Len(items) = 0 THEN acc
    ELSE LET pod == Head(items) IN
         collect([volumesCM |-> acc.volumesCM \o volsCM(pod.Spec.Volumes),
                  volumesProjectedCM |->
                      acc.volumesProjectedCM \o volsProjectedCM(pod.Spec.Volumes),
                  envCM |-> acc.envCM \o ctrsEnvCM(pod.Spec.Containers),
                  envFromCM |-> acc.envFromCM \o ctrsEnvFromCM(pod.Spec.Containers),
                  envFromContainerCM |->
                      acc.envFromContainerCM \o ctrsEnvFromCM(pod.Spec.Containers)],
                 Tail(items))

\* slices that outlive the call and still hold the previous call's references
sharedSlices ==
    [volumesCM |-> mapKeys(podRefs), volumesProjectedCM |-> <<>>, envCM |-> <<>>,
     envFromCM |-> <<>>, envFromContainerCM |-> <<>>]

\* lines 27-31: the slices retrieveVolumesAndEnv starts from
newSlices ==
    [volumesCM |-> <<>>, volumesProjectedCM |-> <<>>, envCM |-> <<>>,
     envFromCM |-> <<>>, envFromContainerCM |-> <<>>]

\* lines 36, 78: the results returned next to a non-nil error
nilSlices ==
    [volumesCM |-> <<>>, volumesProjectedCM |-> <<>>, envCM |-> <<>>,
     envFromCM |-> <<>>, envFromContainerCM |-> <<>>]

RECURSIVE names(_)
names(items) ==
    IF Len(items) = 0 THEN <<>> ELSE <<Head(items)>> \o names(Tail(items))

\* leaves out the names referenced by env variables
usedConfigMapsWithoutEnv ==
    volumesCM \o volumesProjectedCM \o envFromCM \o envFromContainerCM

usedConfigMaps ==
    volumesCM \o volumesProjectedCM \o envCM \o envFromCM \o envFromContainerCM

\* walks the listing from its end
namespaceFromEnd == namespaces[Len(namespaces) - idx + 1]

namespace == namespaces[idx]

----------------------------------------------------------------------------
(* History: what a Pod listing references, stated on the Pod specifications *)

PodReferences(pod, n) ==
    \/ \E v \in Range(pod.Spec.Volumes) :
          \/ v.ConfigMap = Ref(n)
          \/ /\ v.Projected # <<>>
             /\ \E s \in Range(v.Projected[1].Sources) : s.ConfigMap = Ref(n)
    \/ \E c \in Range(pod.Spec.Containers) :
          \/ \E e \in Range(c.Env) :
                e.ValueFrom # <<>> /\ e.ValueFrom[1].ConfigMapKeyRef = Ref(n)
          \/ \E f \in Range(c.EnvFrom) : f.ConfigMapRef = Ref(n)

RefNames(items) == {n \in Names : \E i \in 1..Len(items) : PodReferences(items[i], n)}

----------------------------------------------------------------------------
(* The state machine *)

Init ==
    /\ pc = "BuildConfig"
    /\ namespaces = <<>>
    /\ idx = 1
    /\ pods = <<>>
    /\ volumesCM = <<>>
    /\ volumesProjectedCM = <<>>
    /\ envCM = <<>>
    /\ envFromCM = <<>>
    /\ envFromContainerCM = <<>>
    /\ configMapNames = <<>>
    /\ err = ""
    /\ stdout = <<>>
    /\ stderr = <<>>
    /\ exitCode = -1
    /\ calls = <<>>
    /\ podRefs = {}
    /\ prevRefs = {}

locals == <<pods, volumesCM, volumesProjectedCM, envCM, envFromCM,
            envFromContainerCM, configMapNames, podRefs, prevRefs>>

Call(op, ns, ok) == [op |-> op, namespace |-> ns, ok |-> ok]

\* reports the failure and returns, so that the process ends with status 0
FatalReturns(msg) ==
    /\ stderr' = Append(stderr, [msg |-> msg, namespace |-> ""])
    /\ exitCode' = 0
    /\ pc' = "Done"

\* fmt.Fprintf(os.Stderr, ...); os.Exit(1)
Fatal(msg) ==
    /\ stderr' = Append(stderr, [msg |-> msg, namespace |-> ""])
    /\ exitCode' = 1
    /\ pc' = "Exited"

\* lines 162-167
BuildConfig ==
    /\ pc = "BuildConfig"
    /\ \E ok \in BOOLEAN :
          /\ calls' = Append(calls, Call("BuildConfigFromFlags", "", ok))
          /\ IF ok THEN pc' = "NewForConfig" /\ UNCHANGED <<stderr, exitCode>>
                   ELSE Fatal("Failed to load kubeconfig")
    /\ UNCHANGED <<namespaces, idx, locals, err, stdout>>

\* lines 169-173
NewForConfig ==
    /\ pc = "NewForConfig"
    /\ \E ok \in BOOLEAN :
          /\ calls' = Append(calls, Call("NewForConfig", "", ok))
          /\ IF ok THEN pc' = "ListNamespaces" /\ UNCHANGED <<stderr, exitCode>>
                   ELSE Fatal("Failed to create Kubernetes client")
    /\ UNCHANGED <<namespaces, idx, locals, err, stdout>>

\* lines 175-182
ListNamespaces ==
    /\ pc = "ListNamespaces"
    /\ \/ /\ calls' = Append(calls, Call("ListNamespaces", "", FALSE))
          /\ Fatal("Failed to retrieve namespaces")
          /\ UNCHANGED namespaces
       \/ /\ calls' = Append(calls, Call("ListNamespaces", "", TRUE))
          /\ \E namespaceList \in NsLists : namespaces' = names(namespaceList)
          /\ pc' = "Loop"
          /\ UNCHANGED <<stderr, exitCode>>
    /\ UNCHANGED <<idx, locals, err, stdout>>

\* line 184: the locals of the finished iteration are gone; the range loop takes
\* the next namespace, or the function returns
Loop ==
    /\ pc = "Loop"
    /\ IF idx <= Len(namespaces)
       THEN pc' = "processNamespace" /\ UNCHANGED exitCode
       ELSE pc' = "Done" /\ exitCode' = 0
    /\ pods' = <<>>
    /\ volumesCM' = <<>>
    /\ volumesProjectedCM' = <<>>
    /\ envCM' = <<>>
    /\ envFromCM' = <<>>
    /\ envFromContainerCM' = <<>>
    /\ configMapNames' = <<>>
    /\ err' = ""
    /\ UNCHANGED <<namespaces, idx, stdout, stderr, calls, podRefs, prevRefs>>

\* lines 123, 26-73
RetrieveVolumesAndEnv ==
    /\ pc = "processNamespace"
    /\ \/ /\ calls' = Append(calls, Call("ListPods", namespace, FALSE))
          /\ err' = "pods list error"
          /\ pods' = <<>>
          /\ podRefs' = {}
          /\ volumesCM' = nilSlices.volumesCM
          /\ volumesProjectedCM' = nilSlices.volumesProjectedCM
          /\ envCM' = nilSlices.envCM
          /\ envFromCM' = nilSlices.envFromCM
          /\ envFromContainerCM' = nilSlices.envFromContainerCM
       \/ \E items \in PodLists :
             LET r == collect(newSlices, items) IN
             /\ calls' = Append(calls, Call("ListPods", namespace, TRUE))
             /\ err' = ""
             /\ pods' = items
             /\ podRefs' = RefNames(items)
             /\ volumesCM' = r.volumesCM
             /\ volumesProjectedCM' = r.volumesProjectedCM
             /\ envCM' = r.envCM
             /\ envFromCM' = r.envFromCM
             /\ envFromContainerCM' = r.envFromContainerCM
    /\ prevRefs' = podRefs
    /\ pc' = "podsListed"
    /\ UNCHANGED <<namespaces, idx, configMapNames, stdout, stderr, exitCode>>

\* lines 124-132
Dedup ==
    /\ pc = "podsListed"
    /\ err = ""
    /\ volumesCM' = removeDuplicatesAndSort(volumesCM)
    /\ volumesProjectedCM' = removeDuplicatesAndSort(volumesProjectedCM)
    /\ envCM' = removeDuplicatesAndSort(envCM)
    /\ envFromCM' = removeDuplicatesAndSort(envFromCM)
    /\ envFromContainerCM' = removeDuplicatesAndSort(envFromContainerCM)
    /\ pods' = <<>>
    /\ pc' = "retrieveConfigMapNames"
    /\ UNCHANGED <<namespaces, idx, configMapNames, err, stdout, stderr,
                   exitCode, calls, podRefs, prevRefs>>

\* lines 134, 75-85
RetrieveConfigMapNames ==
    /\ pc = "retrieveConfigMapNames"
    /\ \/ /\ calls' = Append(calls, Call("ListConfigMaps", namespace, FALSE))
          /\ err' = "configmaps list error"
          /\ configMapNames' = <<>>
       \/ /\ calls' = Append(calls, Call("ListConfigMaps", namespace, TRUE))
          /\ \E items \in CmLists : configMapNames' = names(items)
          /\ err' = ""
    /\ pc' = "configMapsListed"
    /\ UNCHANGED <<namespaces, idx, pods, volumesCM, volumesProjectedCM, envCM,
                   envFromCM, envFromContainerCM, stdout, stderr, exitCode,
                   podRefs, prevRefs>>

\* prints a report without looking at the error of the ConfigMap listing
ReportDespiteError ==
    /\ pc = "configMapsListed"
    /\ LET diff == calculateDifference(usedConfigMaps, configMapNames)
           output == formatOutput(namespace, diff)
       IN stdout' = stdout \o <<output, BlankLine>>
    /\ idx' = idx + 1
    /\ pc' = "Loop"
    /\ UNCHANGED <<namespaces, locals, err, stderr, exitCode, calls>>

\* lines 135-141, 190-191
Report ==
    /\ pc = "configMapsListed"
    /\ err = ""
    /\ LET diff == calculateDifference(usedConfigMaps, configMapNames)
           output == formatOutput(namespace, diff)
       IN stdout' = stdout \o <<output, BlankLine>>
    /\ idx' = idx + 1
    /\ pc' = "Loop"
    /\ UNCHANGED <<namespaces, locals, err, stderr, exitCode, calls>>

\* leaves the loop at the first failed namespace (break for continue)
SkipAndBreak ==
    /\ pc \in {"podsListed", "configMapsListed"}
    /\ err # ""
    /\ stderr' = Append(stderr, [msg |-> "Failed to process namespace",
                                 namespace |-> namespace])
    /\ idx' = Len(namespaces) + 1
    /\ pc' = "Loop"
    /\ UNCHANGED <<namespaces, locals, err, stdout, exitCode, calls>>

\* lines 124-126 or 135-137, then 186-189
Skip ==
    /\ pc \in {"podsListed", "configMapsListed"}
    /\ err # ""
    /\ stderr' = Append(stderr, [msg |-> "Failed to process namespace",
                                 namespace |-> namespace])
    /\ idx' = idx + 1
    /\ pc' = "Loop"
    /\ UNCHANGED <<namespaces, locals, err, stdout, exitCode, calls>>

Next ==
    \/ BuildConfig
    \/ NewForConfig
    \/ ListNamespaces
    \/ Loop
    \/ RetrieveVolumesAndEnv
    \/ Dedup
    \/ RetrieveConfigMapNames
    \/ Report
    \/ Skip

Spec == Init /\ [][Next]_vars

(* processNamespace alone: one call, for any namespace of a listing *)
InitNs ==
    /\ pc = "processNamespace"
    /\ namespaces \in {s \in NsLists : Len(s) = 1}
    /\ idx = 1
    /\ pods = <<>>
    /\ volumesCM = <<>>
    /\ volumesProjectedCM = <<>>
    /\ envCM = <<>>
    /\ envFromCM = <<>>
    /\ envFromContainerCM = <<>>
    /\ configMapNames = <<>>
    /\ err = ""
    /\ stdout = <<>>
    /\ stderr = <<>>
    /\ exitCode = -1
    /\ calls = <<Call("BuildConfigFromFlags", "", TRUE), Call("NewForConfig", "", TRUE),
                 Call("ListNamespaces", "", TRUE)>>
    /\ podRefs = {}
    /\ prevRefs = {}

NextNs ==
    \/ RetrieveVolumesAndEnv
    \/ Dedup
    \/ RetrieveConfigMapNames
    \/ Report
    \/ Skip

SpecNs == InitNs /\ [][NextNs]_vars

----------------------------------------------------------------------------
(* Properties of one processNamespace call *)

\* the state right after a report was printed: the call's data is still at hand
Reported == pc = "Loop" /\ idx > 1 /\ err = ""

reportedNs == namespaces[idx - 1]

lastReport == stdout[Len(stdout) - 1]

unusedOf(report) == [i \in 1..Len(report.rows) |-> report.rows[i][2]]

NotReferenced(c) == c \notin podRefs

\* the inventory in listing order, without the names the Pods reference
expectedUnused == SelectSeq(configMapNames, NotReferenced)

IsSorted(s) == \A i, j \in 1..Len(s) : i < j => StrLess(s[i], s[j])

RECURSIVE DecimalValue(_)
DecimalValue(d) ==
    IF Len(d) = 0 THEN 0
    ELSE 10 * DecimalValue(SubSeq(d, 1, Len(d) - 1)) + (d[Len(d)] - 48)

Permuted(s, f) == [i \in 1..Len(s) |-> s[f[i]]]

CountIn(s, n) == Cardinality({i \in 1..Len(s) : s[i] = n})

\* the places of a Pod listing that refer to n, per mechanism
VolumeSites(n) ==
    UNION {{<<i, j>> : j \in {j \in 1..Len(pods[i].Spec.Volumes) :
                               pods[i].Spec.Volumes[j].ConfigMap = Ref(n)}}
           : i \in 1..Len(pods)}

ProjectedSites(n) ==
    UNION {UNION {{<<i, j, k>> :
                     k \in {k \in 1..Len(pods[i].Spec.Volumes[j].Projected[1].Sources) :
                            pods[i].Spec.Volumes[j].Projected[1].Sources[k].ConfigMap = Ref(n)}}
                  : j \in {j \in 1..Len(pods[i].Spec.Volumes) :
                           pods[i].Spec.Volumes[j].Projected # <<>>}}
           : i \in 1..Len(pods)}

EnvSites(n) ==
    UNION {UNION {{<<i, j, k>> :
                     k \in {k \in 1..Len(pods[i].Spec.Containers[j].Env) :
                            LET e == pods[i].Spec.Containers[j].Env[k] IN
                            e.ValueFrom # <<>> /\ e.ValueFrom[1].ConfigMapKeyRef = Ref(n)}}
                  : j \in 1..Len(pods[i].Spec.Containers)}
           : i \in 1..Len(pods)}

EnvFromSites(n) ==
    UNION {UNION {{<<i, j, k>> :
                     k \in {k \in 1..Len(pods[i].Spec.Containers[j].EnvFrom) :
                            pods[i].Spec.Containers[j].EnvFrom[k].ConfigMapRef = Ref(n)}}
                  : j \in 1..Len(pods[i].Spec.Containers)}
           : i \in 1..Len(pods)}

\* C1: after a successful processNamespace, a name is in the unused output if and
\* only if it is in the inventory listing and no Pod of the Pod listing refers to
\* it through any of the four mechanisms; no other name is in the output.
C1_Completeness ==
    Reported =>
        \A c \in Names :
            c \in Range(unusedOf(lastReport))
                <=> (c \in Range(configMapNames) /\ c \notin podRefs)

\* an inventory of two names, one referenced and one not
C1_Witness ==
    /\ Reported
    /\ \E c, d \in Range(configMapNames) :
          /\ c \in podRefs
          /\ d \notin podRefs
          /\ unusedOf(lastReport) = <<d>>
    /\ envCM # <<>>

\* C2: the unused sequence handed to the Reporter is sorted lexicographically and
\* holds no duplicates, for every listing order and every multiset of references.
C2_SortedNoDuplicates ==
    Reported =>
        /\ IsSorted(unusedOf(lastReport))
        /\ IsInjective(unusedOf(lastReport))

\* C8: the report is the "none found" message exactly when every ConfigMap of the
\* inventory is referenced; otherwise it is the header and one row per unused
\* name, numbered from 1 in the order of the unused sequence.
C8_BoundaryReports ==
    Reported =>
        LET r == lastReport IN
        /\ r.namespace = reportedNs
        /\ r.kind \in {"none", "table"}
        /\ (r.kind = "none") <=> (Range(configMapNames) \subseteq podRefs)
        /\ r.kind = "none" => r.rows = <<>>
        /\ r.kind = "table" =>
              /\ r.header = <<"#", "Config Map Name">>
              /\ Len(r.rows) = Len(expectedUnused)
              /\ \A i \in 1..Len(r.rows) :
                    /\ DecimalValue(r.rows[i][1]) = i
                    /\ r.rows[i][2] = expectedUnused[i]

\* no ConfigMap at all, while the Pods refer to names that do not exist
C8_Witness ==
    /\ Reported
    /\ configMapNames = <<>>
    /\ podRefs # {}
    /\ lastReport.kind = "none"

\* C9: for a fixed set of Pods and of ConfigMaps the unused output is the same
\* whatever order the two listings return their items in.
C9_Determinism ==
    /\ (pc = "podsListed" /\ err = "") =>
          \A f \in Permutations(1..Len(pods)) :
              LET r == collect(newSlices, Permuted(pods, f)) IN
              /\ removeDuplicatesAndSort(r.volumesCM) = removeDuplicatesAndSort(volumesCM)
              /\ removeDuplicatesAndSort(r.volumesProjectedCM)
                    = removeDuplicatesAndSort(volumesProjectedCM)
              /\ removeDuplicatesAndSort(r.envCM) = removeDuplicatesAndSort(envCM)
              /\ removeDuplicatesAndSort(r.envFromCM) = removeDuplicatesAndSort(envFromCM)
    /\ Reported =>
          \A f \in Permutations(1..Len(configMapNames)) :
              calculateDifference(usedConfigMaps, Permuted(configMapNames, f))
                  = unusedOf(lastReport)

\* C10: retrieveVolumesAndEnv puts one entry in its partition for every volume,
\* projected source, env variable and envFrom of every listed Pod that refers to
\* a ConfigMap; partition 5 equals partition 4; after removeDuplicatesAndSort the
\* partitions hold together exactly the names some Pod refers to; the unused
\* output is the same without partition 5.
C10_CollectorCoverage ==
    /\ (pc = "podsListed" /\ err = "") =>
          /\ \A n \in Names :
                /\ CountIn(volumesCM, n) = Cardinality(VolumeSites(n))
                /\ CountIn(volumesProjectedCM, n) = Cardinality(ProjectedSites(n))
                /\ CountIn(envCM, n) = Cardinality(EnvSites(n))
                /\ CountIn(envFromCM, n) = Cardinality(EnvFromSites(n))
          /\ envFromContainerCM = envFromCM
    /\ pc \in {"retrieveConfigMapNames", "configMapsListed"} =>
          /\ Range(volumesCM) \cup Range(volumesProjectedCM) \cup Range(envCM)
                \cup Range(envFromCM) \cup Range(envFromContainerCM) = podRefs
          /\ \A part \in {volumesCM, volumesProjectedCM, envCM, envFromCM,
                          envFromContainerCM} : IsSorted(part)
          /\ envFromContainerCM = envFromCM
    /\ Reported =>
          calculateDifference(volumesCM \o volumesProjectedCM \o envCM \o envFromCM,
                              configMapNames) = unusedOf(lastReport)

\* two Pods; a projected volume with two ConfigMap sources; a repeated envFrom
C10_Witness ==
    /\ pc = "podsListed"
    /\ err = ""
    /\ Len(pods) = 2
    /\ Len(volumesProjectedCM) >= 2
    /\ \E n \in Names : CountIn(envFromCM, n) >= 2
    /\ volumesCM # <<>>
    /\ envCM # <<>>

----------------------------------------------------------------------------
(* Properties of the Driver *)

PosOf(ns) == CHOOSE k \in 1..Len(namespaces) : namespaces[k] = ns

ReportsFor(ns) ==
    {i \in 1..Len(stdout) : stdout[i].kind \in {"none", "table"} /\ stdout[i].namespace = ns}

FailuresFor(ns) ==
    {i \in 1..Len(stderr) :
        stderr[i].msg = "Failed to process namespace" /\ stderr[i].namespace = ns}

ListingCalls == {i \in 1..Len(calls) : calls[i].op \in {"ListPods", "ListConfigMaps"}}

CallsOf(op, ns) == {i \in 1..Len(calls) : calls[i].op = op /\ calls[i].namespace = ns}

ListingsOk(ns) ==
    /\ \E i \in CallsOf("ListPods", ns) : calls[i].ok
    /\ \E i \in CallsOf("ListConfigMaps", ns) : calls[i].ok

ListingFailed(ns) == \E i \in ListingCalls : calls[i].namespace = ns /\ ~calls[i].ok

Outcomes(ns) == Cardinality(ReportsFor(ns)) + Cardinality(FailuresFor(ns))

FatalMessage(op) ==
    CASE op = "BuildConfigFromFlags" -> "Failed to load kubeconfig"
      [] op = "NewForConfig" -> "Failed to create Kubernetes client"
      [] op = "ListNamespaces" -> "Failed to retrieve namespaces"
      [] OTHER -> ""

SetupOps == {"BuildConfigFromFlags", "NewForConfig", "ListNamespaces"}

SetupFailed ==
    \/ exitCode = 1
    \/ pc = "Exited"
    \/ \E i \in 1..Len(calls) : calls[i].op \in SetupOps /\ ~calls[i].ok
    \/ \E i \in 1..Len(stderr) : stderr[i].msg \in {FatalMessage(op) : op \in SetupOps}

\* C3: when the run has ended, every namespace of the listing was processed once,
\* whatever namespaces failed before it: a namespace with a failed listing has
\* one failure message on standard error, a namespace whose two listings
\* succeeded has its report on standard output, and the exit code is 0.
C3_SkipAndContinue ==
    /\ (\E ns \in Range(namespaces) : FailuresFor(ns) # {}) => pc # "Exited"
    /\ pc = "Done" =>
          \A k \in 1..Len(namespaces) :
              LET ns == namespaces[k] IN
              /\ Cardinality(CallsOf("ListPods", ns)) = 1
              /\ ListingFailed(ns) =>
                    Cardinality(FailuresFor(ns)) = 1 /\ ReportsFor(ns) = {}
              /\ ~ListingFailed(ns) =>
                    ListingsOk(ns) /\ Cardinality(ReportsFor(ns)) = 1

\* the first namespace failed, the second one was still reported
C3_Witness ==
    /\ pc = "Done"
    /\ exitCode = 0
    /\ Len(namespaces) = 2
    /\ ListingFailed(namespaces[1])
    /\ FailuresFor(namespaces[1]) # {}
    /\ ListingsOk(namespaces[2])
    /\ ReportsFor(namespaces[2]) # {}

\* C4: every processed namespace has exactly one outcome, a complete report block
\* on standard output after two successful listings, or a failure message on
\* standard error and nothing on standard output; a failed Pod listing returns
\* five empty partitions.
C4_NoPartialResults ==
    /\ \A k \in 1..Len(namespaces) :
          LET ns == namespaces[k] IN
          /\ k < idx => Outcomes(ns) = 1
          /\ k >= idx => Outcomes(ns) = 0
          /\ ReportsFor(ns) # {} =>
                /\ ListingsOk(ns)
                /\ ~ListingFailed(ns)
                /\ \A i \in ReportsFor(ns) : i < Len(stdout) /\ stdout[i + 1] = BlankLine
          /\ FailuresFor(ns) # {} => ListingFailed(ns)
    /\ Len(stdout) = 2 * Cardinality(UNION {ReportsFor(ns) : ns \in Range(namespaces)})
    /\ (pc = "podsListed" /\ err # "") =>
          /\ pods = <<>>
          /\ usedConfigMaps = <<>>
          /\ configMapNames = <<>>

\* the Pod listing succeeded with references, the ConfigMap listing failed
C4_Witness ==
    /\ pc = "Loop"
    /\ idx > 1
    /\ err # ""
    /\ podRefs # {}
    /\ calls[Len(calls)] = Call("ListConfigMaps", namespaces[idx - 1], FALSE)
    /\ FailuresFor(namespaces[idx - 1]) # {}
    /\ ReportsFor(namespaces[idx - 1]) = {}

\* C5: a failed setup step writes its message to standard error and ends the
\* process with exit code 1 at once: the failed step is the last call made, no
\* Pod or ConfigMap listing was issued and standard output is empty.
C5_FatalSetup ==
    SetupFailed =>
        /\ pc = "Exited"
        /\ exitCode = 1
        /\ stdout = <<>>
        /\ namespaces = <<>>
        /\ ListingCalls = {}
        /\ calls # <<>>
        /\ \A i \in 1..Len(calls) : calls[i].ok <=> i < Len(calls)
        /\ stderr = <<[msg |-> FatalMessage(calls[Len(calls)].op), namespace |-> ""]>>

\* the namespace listing failed after the two earlier steps succeeded
C5_Witness ==
    /\ pc = "Exited"
    /\ exitCode = 1
    /\ Len(calls) = 3
    /\ calls[3] = Call("ListNamespaces", "", FALSE)

\* C6: the report blocks on standard output, each followed by a blank line, are
\* the namespaces of the listing that succeeded, in listing order and at most
\* once each; a listing call for a namespace is issued only when every namespace
\* before it in the listing has its outcome.
C6_SequentialOrder ==
    LET reps == [j \in 1..(Len(stdout) \div 2) |-> stdout[2 * j - 1].namespace] IN
    /\ Len(stdout) % 2 = 0
    /\ \A j \in 1..Len(reps) :
          /\ stdout[2 * j - 1].kind \in {"none", "table"}
          /\ stdout[2 * j] = BlankLine
          /\ reps[j] \in Range(namespaces)
    /\ \A i, j \in 1..Len(reps) : i < j => PosOf(reps[i]) < PosOf(reps[j])
    /\ Range(reps) = {namespaces[k] : k \in {k \in 1..(idx - 1) : k <= Len(namespaces)
                                            /\ ~ListingFailed(namespaces[k])}}
    /\ \A i \in ListingCalls :
          /\ calls[i].namespace \in Range(namespaces)
          /\ \A k \in 1..(PosOf(calls[i].namespace) - 1) : Outcomes(namespaces[k]) = 1
          /\ \A j \in ListingCalls :
                i < j => PosOf(calls[i].namespace) <= PosOf(calls[j].namespace)

\* two namespaces reported, listed in an order that is not the alphabetical one
C6_Witness ==
    /\ pc = "Done"
    /\ namespaces = <<"empty-ns", "default">>
    /\ Len(stdout) = 4
    /\ stdout[1].namespace = "empty-ns"
    /\ stdout[3].namespace = "default"

\* C7: the report of a namespace is a function of the Pods and ConfigMaps listed
\* for that namespace alone: no reference of an earlier namespace is among the
\* collected references, and none removes a name from the unused set.
C7_NoCrossNamespaceLeak ==
    /\ pc = "processNamespace" => usedConfigMaps = <<>> /\ configMapNames = <<>>
    /\ (pc \in {"podsListed", "retrieveConfigMapNames", "configMapsListed"}) =>
          Range(usedConfigMaps) \subseteq podRefs
    /\ Reported =>
          /\ lastReport.namespace = reportedNs
          /\ lastReport.kind = (IF expectedUnused = <<>> THEN "none" ELSE "table")
          /\ unusedOf(lastReport) = expectedUnused

\* the namespace before referenced a name that is unused in this one
C7_Witness ==
    /\ Reported
    /\ idx > 2
    /\ \E x \in prevRefs : x \in Range(unusedOf(lastReport)) /\ x \notin podRefs

====
